---- MODULE Spec2Model ----
(***************************************************************************)
(* Model of streamlit_app.py: a chat page that posts the conversation to   *)
(* an inference endpoint, consumes the (optionally streamed) answer, and   *)
(* collects thumbs-up / thumbs-down feedback per assistant message.        *)
(*                                                                         *)
(* The script is re-executed top to bottom on every user interaction; one  *)
(* action of the model is one such execution (a render pass).  The only    *)
(* other actions are the steps of the background store_feedback threads.   *)
(*                                                                         *)
(* Text is a sequence of atoms.  An atom is either a whitespace character  *)
(* (" " or "\n") or a chunk of non-whitespace characters.                  *)
(***************************************************************************)
EXTENDS Integers, Sequences, FiniteSets, TLC

VARIABLES
    messages,          \* st.session_state.messages
    pending_feedback,  \* st.session_state.pending_feedback
    feedback,          \* st.session_state["feedback_<idx>"], a partial map
    view,              \* widgets the last render pass put on the page, per idx
    posts,             \* payloads of the HTTP POSTs issued so far
    threads,           \* store_feedback threads started so far
    last               \* what the last render pass was given and how it ended

vars == <<messages, pending_feedback, feedback, view, posts, threads, last>>

(***************************************************************************)
(* Bounds                                                                  *)
(***************************************************************************)
MaxLines == 3          \* lines in one streamed response body
MaxMessages == 4       \* length of the conversation history
MaxHistory == 3        \* length of an arbitrary history (question lookup)

None == -1             \* Python's None, where the code holds an index or None

(***************************************************************************)
(* Text                                                                    *)
(***************************************************************************)
IsSpace(a) == a \in {" ", "\n"}

RECURSIVE Concat(_)
Concat(ts) == IF ts = <<>> THEN <<>> ELSE Head(ts) \o Concat(Tail(ts))

\* str.split(): the maximal runs of non-whitespace atoms, in order
RECURSIVE SplitFrom(_, _, _)
SplitFrom(t, i, cur) ==
    IF i > Len(t)
    THEN IF cur = <<>> THEN <<>> ELSE <<cur>>
    ELSE IF IsSpace(t[i])
         THEN IF cur = <<>>
              THEN SplitFrom(t, i + 1, <<>>)
              ELSE <<cur>> \o SplitFrom(t, i + 1, <<>>)
         ELSE SplitFrom(t, i + 1, Append(cur, t[i]))

split(t) == SplitFrom(t, 1, <<>>)

\* simulate_streaming_text: reply = ""; for token in split: reply += token + " "
RECURSIVE JoinTokens(_)
JoinTokens(tokens) ==
    IF tokens = <<>> THEN <<>>
    ELSE Head(tokens) \o <<" ">> \o JoinTokens(Tail(tokens))

simulate_streaming_text(full_text) == JoinTokens(split(full_text))

(***************************************************************************)
(* JSON values as Python sees them after json.loads                        *)
(***************************************************************************)
JNull == [tag |-> "null"]
JNum(n) == [tag |-> "num", val |-> n]
JStr(t) == [tag |-> "str", val |-> t]
JList(s) == [tag |-> "list", val |-> s]
JObj(f) == [tag |-> "obj", val |-> f]
EmptyDict == JObj(<<>>)
NotJSON == [tag |-> "JSONDecodeError"]

\* Python truthiness of a decoded value
Truthy(v) ==
    CASE v.tag = "null" -> FALSE
      [] v.tag = "num" -> v.val # 0
      [] v.tag = "str" -> v.val # <<>>
      [] v.tag = "list" -> v.val # <<>>
      [] v.tag = "obj" -> DOMAIN v.val # {}

\* key in data, for the values on which Python defines it without raising
HasKey(v, key) == v.tag = "obj" /\ key \in DOMAIN v.val

\* len(v), for the values that have one
PyLen(v) ==
    CASE v.tag = "str" -> Len(v.val)
      [] v.tag = "list" -> Len(v.val)
      [] v.tag = "obj" -> Cardinality(DOMAIN v.val)

\* dict.get(key, default)
DictGet(v, key, default) == IF key \in DOMAIN v.val THEN v.val[key] ELSE default

(***************************************************************************)
(* The wire: raw lines of a response body and what json.loads makes of     *)
(* them.  DocTable lists the JSON documents the model's endpoint can send, *)
(* each with its serialisation; any other text is not JSON.                *)
(***************************************************************************)
Hello == <<"Hello">>
There == <<" ", "there">>
Contents == {Hello, There}

DeltaRaw(c) == <<"{\"choices\":[{\"delta\":{\"content\":\"">> \o c \o <<"\"}}]}">>
MessageRaw(c) == <<"{\"choices\":[{\"message\":{\"content\":\"">> \o c \o <<"\"}}]}">>
ResponseRaw(c) == <<"{\"response\":\"">> \o c \o <<"\"}">>
TextRaw(c) == <<"{\"text\":\"">> \o c \o <<"\"}">>

DeltaDoc(c) == JObj([choices |-> JList(<<JObj([delta |-> JObj([content |-> JStr(c)])])>>)])
MessageDoc(c) == JObj([choices |-> JList(<<JObj([message |-> JObj([content |-> JStr(c)])])>>)])

DocTable ==
    {[raw |-> DeltaRaw(c), val |-> DeltaDoc(c)] : c \in Contents \cup {<<>>}}
    \cup {[raw |-> MessageRaw(c), val |-> MessageDoc(c)] : c \in Contents}
    \cup {[raw |-> ResponseRaw(c), val |-> JObj([response |-> JStr(c)])] : c \in Contents}
    \cup {[raw |-> TextRaw(c), val |-> JObj([text |-> JStr(c)])] : c \in Contents}
    \cup {[raw |-> <<"5">>, val |-> JNum(5)],
          [raw |-> <<"{\"choices\":\"x\"}">>, val |-> JObj([choices |-> JStr(<<"x">>)])],
          [raw |-> <<"{\"choices\":[\"x\"]}">>,
           val |-> JObj([choices |-> JList(<<JStr(<<"x">>)>>)])],
          [raw |-> <<"{\"choices\":[{\"delta\":null}]}">>,
           val |-> JObj([choices |-> JList(<<JObj([delta |-> JNull])>>)])],
          [raw |-> <<"{\"choices\":[{\"message\":{\"content\":null}}]}">>,
           val |-> JObj([choices |-> JList(<<JObj([message |-> JObj([content |-> JNull])])>>)])]}

\* json.loads(line.decode("utf-8")): the decoded document, or JSONDecodeError
json_loads(raw) ==
    IF \E e \in DocTable : e.raw = raw
    THEN (CHOOSE e \in DocTable : e.raw = raw).val
    ELSE NotJSON

BlankLine == <<>>
DoneLine == <<"[DONE]">>
KeepAlive == <<":", " ", "keep-alive">>
DataPrefix == <<"data:", " ">>
Data(raw) == DataPrefix \o raw

(***************************************************************************)
(* A response of the endpoint, as the handler can observe it:              *)
(*   status = 0   requests.post itself raised a RequestException;          *)
(*   lines        the body, line by line (response.iter_lines());          *)
(*   failAt = k   iter_lines raises a RequestException instead of          *)
(*                delivering line k (k = Len + 1: at the end of the body); *)
(*                0 when the body arrives whole.                           *)
(***************************************************************************)
RefusedText == <<"Connection", " ", "refused">>
BrokenText == <<"Connection", " ", "broken">>

\* str(e) of the RequestException the response raises
ExcDescription(resp) == IF resp.status = 0 THEN RefusedText ELSE BrokenText

\* response.text: the whole body
RECURSIVE ResponseText(_)
ResponseText(lines) ==
    IF lines = <<>> THEN <<>>
    ELSE Head(lines) \o <<"\n">> \o ResponseText(Tail(lines))

\* response.json(): json.loads of the whole body.  The documents of DocTable
\* are one line each, so the body decodes exactly when its only non-blank
\* line does.
ResponseJson(lines) ==
    LET nonblank == SelectSeq(lines, LAMBDA l : l # BlankLine)
    IN  IF Len(nonblank) = 1 THEN json_loads(nonblank[1]) ELSE NotJSON

(***************************************************************************)
(* The streaming loop, lines 98-112                                        *)
(***************************************************************************)
SkipLine == [k |-> "skip"]
CrashLine == [k |-> "crash"]
TokenLine(t) == [k |-> "token", v |-> t]

\* (variant: the except clause is missing and the error leaves the loop)
OnDecodeErrorRaises == CrashLine

\* except json.JSONDecodeError: continue
OnDecodeError == SkipLine

\* lines 104-110 on a decoded document; any exception other than
\* JSONDecodeError raised here leaves the loop and the handler
ExtractToken(data) ==
    IF data.tag \in {"num", "null"} THEN CrashLine       \* "choices" in data
    ELSE IF ~HasKey(data, "choices") THEN SkipLine
    ELSE LET choices == data.val.choices IN
    IF choices.tag \in {"num", "null"} THEN CrashLine    \* len(...)
    ELSE IF PyLen(choices) = 0 THEN SkipLine
    ELSE IF choices.tag # "list" THEN CrashLine          \* ...[0].get
    ELSE LET first == choices.val[1] IN
    IF first.tag # "obj" THEN CrashLine                  \* .get("delta", {})
    ELSE LET delta == DictGet(first, "delta", EmptyDict) IN
    IF delta.tag # "obj" THEN CrashLine                  \* delta.get
    ELSE LET token == DictGet(delta, "content", JStr(<<>>)) IN
    IF ~Truthy(token) THEN SkipLine
    ELSE IF token.tag # "str" THEN CrashLine             \* reply += token
    ELSE TokenLine(token.val)

\* one iteration of the loop body
LineStep(line) ==
    IF line = BlankLine THEN SkipLine                    \* if line:
    ELSE LET data == json_loads(line)
         IN  IF data.tag = "JSONDecodeError" THEN OnDecodeError
             ELSE ExtractToken(data)

RECURSIVE StreamLoop(_, _, _, _, _)
StreamLoop(lines, failAt, i, reply, got_streaming) ==
    IF failAt = i
    THEN [exc |-> "RequestException", reply |-> reply, got_streaming |-> got_streaming]
    ELSE IF i > Len(lines)
    THEN [exc |-> "none", reply |-> reply, got_streaming |-> got_streaming]
    ELSE LET step == LineStep(lines[i]) IN
         CASE step.k = "skip" -> StreamLoop(lines, failAt, i + 1, reply, got_streaming)
           [] step.k = "crash" ->
                [exc |-> "crash", reply |-> reply, got_streaming |-> got_streaming]
           [] step.k = "token" -> StreamLoop(lines, failAt, i + 1, reply \o step.v, TRUE)

(***************************************************************************)
(* The fallback, lines 115-128                                             *)
(***************************************************************************)
WarnSign == "(warning)"      \* the warning-sign emoji of the literals
CrossMark == "(cross)"       \* the cross-mark emoji of the literals

UnexpectedFormat == <<WarnSign, " ", "Unexpected", " ", "response", " ", "format.">>
CouldNotParse == <<WarnSign, " ", "Could", " ", "not", " ", "parse", " ", "model", " ", "response.">>

\* except Exception: reply = response.text or "... Could not parse ..."
FallbackExcept(lines) ==
    JStr(IF ResponseText(lines) # <<>> THEN ResponseText(lines) ELSE CouldNotParse)

\* reply = data["choices"][0]["message"]["content"], raising inside the try
\* when any step of the path is missing
MessageContent(choices, lines) ==
    IF choices.val = <<>> THEN FallbackExcept(lines)
    ELSE LET first == choices.val[1] IN
    IF ~HasKey(first, "message") THEN FallbackExcept(lines)
    ELSE IF ~HasKey(first.val.message, "content") THEN FallbackExcept(lines)
    ELSE first.val.message.val.content

\* lines 116-125: the value bound to reply, of whatever type the body gives it
FallbackReply(lines) ==
    LET data == ResponseJson(lines) IN
    IF data.tag \in {"JSONDecodeError", "num", "null"} THEN FallbackExcept(lines)
    ELSE IF HasKey(data, "choices") /\ data.val.choices.tag = "list"
    THEN MessageContent(data.val.choices, lines)
    ELSE IF data.tag = "str" THEN data
    ELSE JStr(UnexpectedFormat)

(***************************************************************************)
(* The try block of the input handler, lines 81-135                        *)
(***************************************************************************)
\* (variant: the body is left out of the message)
RequestFailedNoBody(status, text) ==
    <<CrossMark, " ", "Request", " ", "failed", " ", "with", " ", ToString(status), ":", " ">>

\* line 92
RequestFailed(status, text) ==
    <<CrossMark, " ", "Request", " ", "failed", " ", "with", " ", ToString(status), ":", " ">> \o text

\* (variant: the error is added to the fragments already in reply)
ConnectionErrorKeepsPartial(partial, e) ==
    partial \o <<CrossMark, " ", "Connection", " ", "error:", " ">> \o e

\* except requests.exceptions.RequestException as e
ConnectionError(partial, e) == <<CrossMark, " ", "Connection", " ", "error:", " ">> \o e

Crashed == [outcome |-> "crash", reply |-> <<>>]

\* line 128: .split() exists on str only
AfterFallback(v) ==
    IF v.tag # "str" THEN Crashed
    ELSE [outcome |-> "fallback", reply |-> simulate_streaming_text(v.val)]

HandleResponse(resp) ==
    IF resp.status = 0
    THEN [outcome |-> "connerr", reply |-> ConnectionError(<<>>, ExcDescription(resp))]
    ELSE IF resp.status # 200
    THEN [outcome |-> "http_error",
          reply |-> RequestFailed(resp.status, ResponseText(resp.lines))]
    ELSE LET r == StreamLoop(resp.lines, resp.failAt, 1, <<>>, FALSE) IN
         CASE r.exc = "crash" -> Crashed
           [] r.exc = "RequestException" ->
                [outcome |-> "connerr",
                 reply |-> ConnectionError(r.reply, ExcDescription(resp))]
           [] r.exc = "none" ->
                IF ~r.got_streaming THEN AfterFallback(FallbackReply(resp.lines))
                ELSE [outcome |-> "streamed", reply |-> r.reply]

(***************************************************************************)
(* The display loop, lines 143-222                                         *)
(***************************************************************************)
Message(role, content) == [role |-> role, content |-> content]

Categories == {"inaccurate", "outdated", "too long", "too short", "other"}

NoEvent == [type |-> "none", idx |-> None]

\* (variant: no question_idx >= 0 test, so that index -1 reads the last message)
QuestionForUnguarded(msgs, idx) ==
    LET question_idx == idx - 1
        at == IF question_idx >= 0 THEN question_idx + 1 ELSE Len(msgs)
    IN  IF msgs[at].role = "user" THEN msgs[at].content ELSE <<>>

\* lines 152-157; idx counts from 0, messages[idx] is msgs[idx + 1]
QuestionFor(msgs, idx) ==
    LET question_idx == idx - 1 IN
    IF question_idx >= 0 /\ msgs[question_idx + 1].role = "user"
    THEN msgs[question_idx + 1].content
    ELSE <<>>

\* st.session_state.get(feedback_key, "none")
FeedbackStatus(fb, idx) == IF idx \in DOMAIN fb THEN fb[idx] ELSE "none"

\* (variant: the form is rendered for every rated message)
FormOpenAlways(pending, idx) == TRUE

\* line 177
FormOpen(pending, idx) == pending = idx

\* (variant: the pending marker is not cleared)
PendingKept(pending) == pending

\* lines 194 and 212
PendingAfterSubmit(pending) == None

\* line 221
ShowSuccess(feedback_status, just_submitted_feedback) ==
    feedback_status \in {"thumbs_up", "thumbs_down"} \/ just_submitted_feedback

\* (variant: question and answer are passed in the wrong order)
ThreadSwapped(idx, question, answer, score, comment, category) ==
    [idx |-> idx, question |-> answer, answer |-> question, score |-> score,
     comment |-> comment, category |-> category, state |-> "running"]

\* the thread started at lines 196-199 / 214-217
Thread(idx, question, answer, score, comment, category) ==
    [idx |-> idx, question |-> question, answer |-> answer, score |-> score,
     comment |-> comment, category |-> category, state |-> "running"]

\* one iteration of the loop for an assistant message, lines 152-222
RenderAssistant(msgs, ev, idx, st) ==
    LET question == QuestionFor(msgs, idx)
        feedback_status == FeedbackStatus(st.feedback, idx)
        buttons == feedback_status = "none"
        thumbs_up == buttons /\ ev.type = "thumbs_up" /\ ev.idx = idx
        thumbs_down == buttons /\ ev.type = "thumbs_down" /\ ev.idx = idx
        fb == IF thumbs_down THEN (idx :> "thumbs_down") @@ st.feedback
              ELSE IF thumbs_up THEN (idx :> "thumbs_up") @@ st.feedback
              ELSE st.feedback
        pending == IF thumbs_up \/ thumbs_down THEN idx ELSE st.pending
        down_form == FormOpen(pending, idx) /\ FeedbackStatus(fb, idx) = "thumbs_down"
        up_form == FormOpen(pending, idx) /\ FeedbackStatus(fb, idx) = "thumbs_up"
        submitted_down == down_form /\ ev.type = "submit_down" /\ ev.idx = idx
        submitted_up == up_form /\ ev.type = "submit_up" /\ ev.idx = idx
        just == st.just \/ submitted_down \/ submitted_up
        widgets == (IF buttons THEN {"buttons"} ELSE {})
                   \cup (IF down_form THEN {"thumbs_down_form"} ELSE {})
                   \cup (IF up_form THEN {"thumbs_up_form"} ELSE {})
                   \cup (IF ShowSuccess(feedback_status, just) THEN {"success"} ELSE {})
    IN  [feedback |-> fb,
         pending |-> IF submitted_down \/ submitted_up
                     THEN PendingAfterSubmit(pending) ELSE pending,
         just |-> just,
         started |->
            IF submitted_down
            THEN Append(st.started, Thread(idx, question, msgs[idx + 1].content,
                                           "thumbs_down", ev.comment, ev.category))
            ELSE IF submitted_up
            THEN Append(st.started, Thread(idx, question, msgs[idx + 1].content,
                                           "thumbs_up", ev.comment, ""))
            ELSE st.started,
         view |-> (idx :> widgets) @@ st.view]

RECURSIVE DisplayLoop(_, _, _, _)
DisplayLoop(msgs, ev, idx, st) ==
    IF idx >= Len(msgs) THEN st
    ELSE IF msgs[idx + 1].role = "assistant"
    THEN DisplayLoop(msgs, ev, idx + 1, RenderAssistant(msgs, ev, idx, st))
    ELSE DisplayLoop(msgs, ev, idx + 1, [st EXCEPT !.view = (idx :> {}) @@ @])

NoView == [idx \in {} |-> {}]

\* lines 143-146 and the loop
Display(msgs, ev, pending, fb, started) ==
    DisplayLoop(msgs, ev, 0,
                [feedback |-> fb, pending |-> pending, just |-> FALSE,
                 started |-> started, view |-> NoView])

(***************************************************************************)
(* Inputs                                                                  *)
(***************************************************************************)
Hi == <<"Hi">>
UserInputs == {Hi}
Comments == {<<"more">>}

Response(status, lines, failAt) == [status |-> status, lines |-> lines, failAt |-> failAt]

\* the lines a streamed body is made of
StreamLines ==
    {BlankLine, KeepAlive, DoneLine, Data(DoneLine),
     DeltaRaw(Hello), DeltaRaw(There), DeltaRaw(<<>>),
     Data(DeltaRaw(Hello)), Data(DeltaRaw(There)),
     MessageRaw(Hello), ResponseRaw(Hello), TextRaw(Hello),
     <<"5">>, <<"{\"choices\":\"x\"}">>,
     <<"{\"choices\":[\"x\"]}">>, <<"{\"choices\":[{\"delta\":null}]}">>,
     <<"{\"choices\":[{\"message\":{\"content\":null}}]}">>}

Bodies(n) == UNION {[1..k -> StreamLines] : k \in 0..n}

\* what requests can hand the handler for a body b: no response at all
\* (status 0), a non-200 status, or a 200 whose body breaks at line f
WellFormed(status, b, f) ==
    CASE status = 0 -> b = <<>> /\ f = 0
      [] status = 500 -> Len(b) <= 1 /\ f = 0
      [] status = 200 -> f <= Len(b) + 1

\* the endpoint outcomes a session meets: refused connection, streamed
\* fragments, connection broken after one fragment, single JSON document,
\* non-200 status, a document without usable content
SessionResponses ==
    {Response(0, <<>>, 0),
     Response(200, <<DeltaRaw(Hello), DeltaRaw(There)>>, 0),
     Response(200, <<DeltaRaw(Hello)>>, 1),
     Response(200, <<DeltaRaw(Hello)>>, 2),
     Response(200, <<MessageRaw(Hello)>>, 0),
     Response(500, <<<<"Internal", " ", "error">>>>, 0),
     Response(200, <<<<"{\"choices\":[{\"message\":{\"content\":null}}]}">>>>, 0)}

(***************************************************************************)
(* Render passes                                                           *)
(***************************************************************************)
Init ==
    /\ messages = <<>>
    /\ pending_feedback = None
    /\ feedback = [idx \in {} |-> "none"]
    /\ view = NoView
    /\ posts = <<>>
    /\ threads = <<>>
    /\ last = [type |-> "start", idx |-> None, submitted |-> None, outcome |-> "rendered"]

\* (variant: the reply is inserted at the head of the history)
InsertReplyFirst(history, reply) == <<Message("assistant", reply)>> \o history

\* line 138
AppendReply(history, reply) == Append(history, Message("assistant", reply))

\* a pass with text in the chat input: lines 70-138, then the display loop
ChatSubmit(user_input, resp) ==
    /\ Len(messages) + 2 <= MaxMessages
    /\ LET history == Append(messages, Message("user", user_input))
           r == HandleResponse(resp)
       IN  /\ posts' = Append(posts, history)
           /\ last' = [type |-> "chat", idx |-> None, submitted |-> None,
                       outcome |-> r.outcome, input |-> user_input, resp |-> resp]
           /\ IF r.outcome = "crash"
              THEN /\ messages' = history
                   /\ view' = NoView
                   /\ UNCHANGED <<pending_feedback, feedback, threads>>
              ELSE LET msgs == AppendReply(history, r.reply)
                       d == Display(msgs, NoEvent, pending_feedback, feedback, threads)
                   IN  /\ messages' = msgs
                       /\ pending_feedback' = d.pending
                       /\ feedback' = d.feedback
                       /\ threads' = d.started
                       /\ view' = d.view

\* the index whose form a pass confirmed (it started a thread for it), or None
Submitted(before, after) ==
    IF Len(after) > Len(before) THEN after[Len(after)].idx ELSE None

\* a pass triggered by a widget of the page: the chat input is empty, only
\* the display loop runs
WidgetPass(ev) ==
    LET d == Display(messages, ev, pending_feedback, feedback, threads)
    IN  /\ pending_feedback' = d.pending
        /\ feedback' = d.feedback
        /\ threads' = d.started
        /\ view' = d.view
        /\ last' = [type |-> ev.type, idx |-> ev.idx, submitted |-> Submitted(threads, d.started),
                    outcome |-> "rendered"]
        /\ UNCHANGED <<messages, posts>>

Shown(idx, widget) == idx \in DOMAIN view /\ widget \in view[idx]

ThumbsUp(idx) ==
    /\ Shown(idx, "buttons")
    /\ WidgetPass([type |-> "thumbs_up", idx |-> idx])

ThumbsDown(idx) ==
    /\ Shown(idx, "buttons")
    /\ WidgetPass([type |-> "thumbs_down", idx |-> idx])

SubmitDown(idx, comment, category) ==
    /\ Shown(idx, "thumbs_down_form")
    /\ WidgetPass([type |-> "submit_down", idx |-> idx,
                   comment |-> comment, category |-> category])

SubmitUp(idx, comment) ==
    /\ Shown(idx, "thumbs_up_form")
    /\ WidgetPass([type |-> "submit_up", idx |-> idx, comment |-> comment])

(***************************************************************************)
(* store_feedback, lines 27-52, running on its own thread                  *)
(***************************************************************************)
\* connect, execute, close all returned
StoreSucceed(t) ==
    /\ threads[t].state = "running"
    /\ threads' = [threads EXCEPT ![t].state = "stored"]
    /\ UNCHANGED <<messages, pending_feedback, feedback, view, posts, last>>

\* (variant: the exception is not caught and ends the render pass)
StoreFailRaises(t) ==
    /\ threads[t].state = "running"
    /\ threads' = [threads EXCEPT ![t].state = "logged"]
    /\ last' = [last EXCEPT !.outcome = "crash"]
    /\ view' = NoView
    /\ UNCHANGED <<messages, pending_feedback, feedback, posts>>

\* one of them raised: except Exception prints and returns
StoreFail(t) ==
    /\ threads[t].state = "running"
    /\ threads' = [threads EXCEPT ![t].state = "logged"]
    /\ UNCHANGED <<messages, pending_feedback, feedback, view, posts, last>>

FeedbackNext ==
    \/ \E idx \in DOMAIN view : ThumbsUp(idx)
    \/ \E idx \in DOMAIN view : ThumbsDown(idx)
    \/ \E idx \in DOMAIN view, comment \in Comments, category \in Categories :
          SubmitDown(idx, comment, category)
    \/ \E idx \in DOMAIN view, comment \in Comments : SubmitUp(idx, comment)
    \/ \E t \in DOMAIN threads : StoreSucceed(t)
    \/ \E t \in DOMAIN threads : StoreFail(t)

Next ==
    \/ \E user_input \in UserInputs, resp \in SessionResponses :
          ChatSubmit(user_input, resp)
    \/ FeedbackNext

Spec == Init /\ [][Next]_vars

\* one submission, over every response body of up to MaxLines lines
StreamNext ==
    /\ messages = <<>>
    /\ \E user_input \in UserInputs, status \in {0, 200, 500},
          b \in Bodies(MaxLines), f \in 0..(MaxLines + 1) :
           /\ WellFormed(status, b, f)
           /\ ChatSubmit(user_input, Response(status, b, f))

SpecStream == Init /\ [][StreamNext]_vars

(***************************************************************************)
(* Question lookup on an arbitrary history                                 *)
(***************************************************************************)
Histories ==
    UNION {[1..k -> {Message(role, content) :
                        role \in {"user", "assistant"}, content \in {Hi, Hello}}] :
           k \in 0..MaxHistory}

LookupInit ==
    /\ messages \in Histories
    /\ pending_feedback = None
    /\ feedback = [idx \in {} |-> "none"]
    /\ view = NoView
    /\ posts = <<>>
    /\ threads = <<>>
    /\ last = [type |-> "start", idx |-> None, submitted |-> None, outcome |-> "rendered"]

\* lines 151-157 for the assistant message at idx
Lookup(idx) ==
    /\ messages[idx + 1].role = "assistant"
    /\ last' = [type |-> "lookup", idx |-> idx, submitted |-> None,
                outcome |-> "rendered", question |-> QuestionFor(messages, idx)]
    /\ UNCHANGED <<messages, pending_feedback, feedback, view, posts, threads>>

LookupNext == \E idx \in 0..(Len(messages) - 1) : Lookup(idx)

SpecLookup == LookupInit /\ [][LookupNext]_vars

(***************************************************************************)
(* Properties                                                              *)
(***************************************************************************)
LastMessage == messages[Len(messages)]

\* the last pass was a chat submission answered 200 with an unbroken body
Answered200 ==
    /\ last.type = "chat"
    /\ last.resp.status = 200
    /\ last.resp.failAt = 0

IsFragmentLine(line) == \E c \in Contents : line = DeltaRaw(c)
FragmentOf(line) == CHOOSE c \in Contents : line = DeltaRaw(c)

IsDataLine(line) == \E c \in Contents : line = Data(DeltaRaw(c))
DataOf(line) == CHOOSE c \in Contents : line = Data(DeltaRaw(c))

\* data: {...} lines, at least one, followed by data: [DONE]
IsEventStream(lines) ==
    /\ Len(lines) >= 2
    /\ lines[Len(lines)] = Data(DoneLine)
    /\ \A i \in 1..(Len(lines) - 1) : IsDataLine(lines[i])

EventStreamText(lines) == Concat([i \in 1..(Len(lines) - 1) |-> DataOf(lines[i])])

\* C1: a stream of well-formed data: lines closed by [DONE] makes the
\* appended assistant message the concatenation of the lines' contents.
C1_EventStreamReply ==
    (Answered200 /\ IsEventStream(last.resp.lines)) =>
        /\ last.outcome # "crash"
        /\ LastMessage = Message("assistant", EventStreamText(last.resp.lines))

\* a body of fragment lines and of lines json.loads rejects, with at least
\* one fragment line
IsGarbledStream(lines) ==
    /\ \A i \in DOMAIN lines :
          IsFragmentLine(lines[i]) \/ json_loads(lines[i]) = NotJSON
    /\ \E i \in DOMAIN lines : IsFragmentLine(lines[i])

GarbledStreamText(lines) ==
    Concat([i \in DOMAIN lines |->
               IF IsFragmentLine(lines[i]) THEN FragmentOf(lines[i]) ELSE <<>>])

\* C2: lines that fail JSON parsing do not halt the stream: the reply is the
\* concatenation, in order, of the fragments of the lines that parse.
C2_GarbageSkipped ==
    (Answered200 /\ IsGarbledStream(last.resp.lines)) =>
        /\ last.outcome = "streamed"
        /\ LastMessage = Message("assistant", GarbledStreamText(last.resp.lines))

C2_Witness ==
    /\ Answered200
    /\ last.resp.lines = <<DeltaRaw(Hello), KeepAlive, DeltaRaw(There)>>
    /\ LastMessage.content = Hello \o There

\* C3: when the body is the single document
\* {"choices":[{"message":{"content": c}}]} the appended reply is exactly c.
C3_FallbackExact ==
    \A c \in Contents :
        (Answered200 /\ last.resp.lines = <<MessageRaw(c)>>) =>
            /\ last.outcome # "crash"
            /\ LastMessage = Message("assistant", c)

\* the connection fails before any line that could end the handler otherwise
ConnectionFails(resp) ==
    \/ resp.status = 0
    \/ /\ resp.status = 200
       /\ resp.failAt > 0
       /\ \A i \in 1..(resp.failAt - 1) :
             IsFragmentLine(resp.lines[i]) \/ json_loads(resp.lines[i]) = NotJSON

ErrorEntry(resp) ==
    Message("assistant",
            <<CrossMark, " ", "Connection", " ", "error:", " ">> \o ExcDescription(resp))

UserCount == Cardinality({i \in DOMAIN messages : messages[i].role = "user"})

\* C4: a connection exception, at the POST or mid-stream, ends the handler
\* with the error text alone as the assistant entry, after one POST and no
\* retry; every POST carries the history up to it, error entries included.
C4_ConnectionError ==
    /\ (last.type = "chat" /\ ConnectionFails(last.resp)) =>
          /\ last.outcome = "connerr"
          /\ LastMessage = ErrorEntry(last.resp)
          /\ messages[Len(messages) - 1] = Message("user", last.input)
    /\ Len(posts) = UserCount
    /\ \A k \in DOMAIN posts : posts[k] = SubSeq(messages, 1, Len(posts[k]))

C4_Witness ==
    /\ Len(messages) = 4
    /\ messages[2] = ErrorEntry(Response(0, <<>>, 0))
    /\ posts[2][2] = messages[2]
    /\ last.type = "chat"
    /\ last.resp = Response(200, <<DeltaRaw(Hello)>>, 2)
    /\ LastMessage = ErrorEntry(last.resp)

\* C5: every submission appends one user and then one assistant message, so
\* that after every completed pass the history alternates user, assistant.
C5_Alternates ==
    last.outcome # "crash" =>
        /\ Len(messages) % 2 = 0
        /\ \A i \in DOMAIN messages :
              messages[i].role = IF i % 2 = 1 THEN "user" ELSE "assistant"

\* C6: an unrated message shows the rating buttons only; a thumbs_down
\* message whose form is still open shows the form and no acknowledgment.
C6_PendingNotAcknowledged ==
    \A idx \in DOMAIN view :
        messages[idx + 1].role = "assistant" =>
            /\ FeedbackStatus(feedback, idx) = "none" => view[idx] = {"buttons"}
            /\ (FeedbackStatus(feedback, idx) = "thumbs_down" /\ pending_feedback = idx) =>
                  /\ "thumbs_down_form" \in view[idx]
                  /\ "success" \notin view[idx]

\* C7: once a message's form has been confirmed, every later pass renders
\* the acknowledgment alone for it, the pending marker never returns to it
\* and its rating stays the one that was confirmed.
C7_SubmittedTerminal ==
    \A t \in DOMAIN threads :
        LET idx == threads[t].idx IN
        /\ FeedbackStatus(feedback, idx) = threads[t].score
        /\ pending_feedback # idx
        /\ (last.submitted # idx /\ idx \in DOMAIN view) => view[idx] = {"success"}

C7_Witness ==
    \E t \in DOMAIN threads :
        /\ last.type = "chat"
        /\ last.outcome # "crash"
        /\ view[threads[t].idx] = {"success"}

\* C8: at most one store operation is dispatched per message index.
C8_AtMostOnce ==
    \A t1, t2 \in DOMAIN threads : threads[t1].idx = threads[t2].idx => t1 = t2

\* the submit control of a form confirmed earlier was activated again
C8_Witness ==
    /\ last.type \in {"submit_down", "submit_up"}
    /\ last.submitted = None
    /\ \E t \in DOMAIN threads : threads[t].idx = last.idx

SessionVars == <<messages, pending_feedback, feedback, view, posts, last>>

\* C9: the pass that starts a store thread completes while the thread is
\* still running, and no step of a store thread, failing or not, changes
\* the session state.
C9_StoreInvisible ==
    [][/\ Len(threads') > Len(threads) =>
             /\ threads'[Len(threads')].state = "running"
             /\ last'.outcome = "rendered"
             /\ pending_feedback' = None
             /\ "success" \in view'[last'.submitted]
       /\ (Len(threads') = Len(threads) /\ threads' # threads) =>
             UNCHANGED SessionVars]_vars

C9_Witness ==
    \E t \in DOMAIN threads :
        /\ threads[t].state = "logged"
        /\ pending_feedback = None
        /\ FeedbackStatus(feedback, threads[t].idx) = threads[t].score
        /\ view[threads[t].idx] = {"success"}

\* C10: the question of the assistant message at index i is the content of
\* the message at i - 1 when that exists and is a user message, else empty.
C10_QuestionLookup ==
    last.type = "lookup" =>
        LET i == last.idx IN
        last.question = IF i >= 1 /\ messages[i].role = "user"
                        THEN messages[i].content
                        ELSE <<>>

\* an assistant-first history whose last message is a user message
C10_Witness ==
    /\ last.type = "lookup"
    /\ last.idx = 0
    /\ Len(messages) >= 2
    /\ LastMessage.role = "user"
    /\ last.question = <<>>

\* C11: every dispatched record carries the rating of the form it came from,
\* a category of the fixed set (thumbs_down) or none (thumbs_up), and the
\* content of the rated assistant message; the confirming pass clears the
\* pending marker.
C11_RecordMatchesPath ==
    /\ \A t \in DOMAIN threads :
          LET r == threads[t] IN
          /\ messages[r.idx + 1] = Message("assistant", r.answer)
          /\ r.score = FeedbackStatus(feedback, r.idx)
          /\ \/ r.score = "thumbs_down" /\ r.category \in Categories
             \/ r.score = "thumbs_up" /\ r.category = ""
    /\ last.submitted # None =>
          /\ pending_feedback = None
          /\ threads[Len(threads)].idx = last.idx
          /\ threads[Len(threads)].score =
                IF last.type = "submit_down" THEN "thumbs_down" ELSE "thumbs_up"

C11_Witness ==
    /\ last.type = "submit_down"
    /\ last.submitted = last.idx
    /\ threads[Len(threads)].category = "too long"
    /\ \E t \in DOMAIN threads : threads[t].score = "thumbs_up"

\* the last pass was a chat submission answered with a non-success status
AnsweredError == last.type = "chat" /\ last.resp.status \notin {0, 200}

FailedWith500 ==
    <<CrossMark, " ", "Request", " ", "failed", " ", "with", " ", "500", ":", " ">>

\* C12 as stated: on a non-success status the appended reply is the response
\* body, exactly.
C12_BodyVerbatim ==
    AnsweredError =>
        LastMessage = Message("assistant", ResponseText(last.resp.lines))

\* C12, amended: on a non-success status the appended reply is the text
\* "Request failed with <status>: " followed by the response body as it is;
\* the body is not parsed and the request is issued once.
C12_BodyAfterPrefix ==
    AnsweredError =>
        /\ last.outcome = "http_error"
        /\ LastMessage =
              Message("assistant", FailedWith500 \o ResponseText(last.resp.lines))
        /\ Len(posts) = 1

C12_Witness ==
    /\ AnsweredError
    /\ last.resp.lines = <<DeltaRaw(Hello)>>
    /\ LastMessage.content = FailedWith500 \o DeltaRaw(Hello) \o <<"\n">>

NoContentText == <<"Model", " ", "returned", " ", "no", " ", "content.">>

\* C13: when the body holds nothing at all (no line, or blank lines only)
\* the appended reply is the placeholder "Model returned no content.".
C13_Placeholder ==
    (Answered200 /\ \A i \in DOMAIN last.resp.lines : last.resp.lines[i] = BlankLine) =>
        /\ last.outcome # "crash"
        /\ LastMessage = Message("assistant", NoContentText)

IsDoneLine(line) == line \in {DoneLine, Data(DoneLine)}

\* C14: no content of a line that arrives after [DONE] is part of the reply:
\* in a body of fragment lines with one [DONE] among them, the reply is the
\* concatenation of the fragments before [DONE].
C14_DoneStops ==
    \A k \in 2..MaxLines + 1 :
        (/\ Answered200
         /\ k \in DOMAIN last.resp.lines
         /\ IsDoneLine(last.resp.lines[k])
         /\ \A i \in 1..(k - 1) : IsFragmentLine(last.resp.lines[i])
         /\ \A i \in DOMAIN last.resp.lines : i > k => IsFragmentLine(last.resp.lines[i])) =>
            /\ last.outcome = "streamed"
            /\ LastMessage =
                  Message("assistant",
                          Concat([i \in 1..(k - 1) |-> FragmentOf(last.resp.lines[i])]))

\* the content the priority order (a) delta, (b) message, (c) response,
\* (d) text finds in a line that holds one of them
HasContent(line) ==
    \E c \in Contents : line \in {DeltaRaw(c), MessageRaw(c), ResponseRaw(c), TextRaw(c)}
ContentOf(line) ==
    CHOOSE c \in Contents : line \in {DeltaRaw(c), MessageRaw(c), ResponseRaw(c), TextRaw(c)}

\* C15: a fragment is yielded for every line that holds content under one
\* of the four shapes: after a first delta line, the reply is the
\* concatenation of the contents of all lines.
C15_PriorityExtraction ==
    (/\ Answered200
     /\ last.resp.lines # <<>>
     /\ IsFragmentLine(last.resp.lines[1])
     /\ \A i \in DOMAIN last.resp.lines : HasContent(last.resp.lines[i])) =>
        /\ last.outcome = "streamed"
        /\ LastMessage =
              Message("assistant",
                      Concat([i \in DOMAIN last.resp.lines |-> ContentOf(last.resp.lines[i])]))

\* valid JSON of a shape the loop does not expect
UnexpectedShapes ==
    {<<"5">>, <<"{\"choices\":\"x\"}">>, <<"{\"choices\":[\"x\"]}">>,
     <<"{\"choices\":[{\"delta\":null}]}">>}

\* C16: a line of an unexpected shape is not fatal: the submission still
\* ends with an assistant message appended to the history.
C16_MalformedNotFatal ==
    (Answered200 /\ \E i \in DOMAIN last.resp.lines : last.resp.lines[i] \in UnexpectedShapes) =>
        /\ last.outcome # "crash"
        /\ Len(messages) = 2
        /\ LastMessage.role = "assistant"

\* C17: the history only grows at its end: every step keeps the existing
\* messages as they are, feedback passes and store threads leave the
\* history unchanged, and every rated index is an assistant message.
C17_AppendOnly ==
    [][/\ Len(messages') >= Len(messages)
       /\ SubSeq(messages', 1, Len(messages)) = messages
       /\ last'.type # "chat" => messages' = messages
       /\ \A idx \in DOMAIN feedback' : messages'[idx + 1].role = "assistant"]_vars

\* a submission made after the first answer was rated
C17_Witness ==
    /\ last.type = "chat"
    /\ Len(messages) = 4
    /\ 1 \in DOMAIN feedback
    /\ messages[2].role = "assistant"

\* C18: a rated message that is not the pending one and shows the
\* acknowledgment alone has had its feedback record dispatched.
C18_AcknowledgedWasDispatched ==
    \A idx \in DOMAIN feedback :
        (pending_feedback # idx /\ idx \in DOMAIN view /\ view[idx] = {"success"}) =>
            \E t \in DOMAIN threads : threads[t].idx = idx

\* C19: the acknowledgment is displayed only for messages that were rated.
C19_AcknowledgedWasRated ==
    \A idx \in DOMAIN view :
        "success" \in view[idx] => FeedbackStatus(feedback, idx) # "none"

====
